---- MODULE Spec2Model ----
(***************************************************************************)
(* BlockCommentCommand (vs/editor/contrib/comment/common):                 *)
(* toggling a block comment around one selection.                          *)
(*                                                                         *)
(* A string is a sequence of one-character strings.  Columns and line      *)
(* numbers are 1-based as in the editor, string indexes are 0-based as in  *)
(* JavaScript.                                                             *)
(***************************************************************************)
EXTENDS Integers, Sequences, FiniteSets

VARIABLES
    lines,          \* the text model: its lines, in order
    config,         \* what LanguageConfigurationRegistry.getComments returns
    selection,      \* BlockCommentCommand._selection
    usedEndToken,   \* BlockCommentCommand._usedEndToken: <<>> is null, <<t>> is t
    ops,            \* the operations the builder tracked in the last call
    inverse,        \* the ranges of the inverse edit operations, in order
    result,         \* <<>>, or <<s>> for the selection computeCursorState returned
    pc,             \* where the command instance is in its life cycle
    before,         \* the lines as they were when the last plan was made
    orig,           \* the lines and the selection the first command was given
    run,            \* how many command instances have been constructed
    calls,          \* getEditOperations calls made on this instance
    haystack, needle, offset, matched   \* one _haystackHasNeedleAtOffset call

vars == <<lines, config, selection, usedEndToken, ops, inverse, result, pc,
          before, orig, run, calls, haystack, needle, offset, matched>>

cmdVars == <<lines, config, selection, usedEndToken, ops, inverse, result, pc,
             before, orig, run, calls>>

matchVars == <<haystack, needle, offset, matched>>

----------------------------------------------------------------------------
(* Bounds *)

MaxLen == 3

MaxNeedle == 2

MaxRuns == 2

MaxCalls == 2

Alphabet == {"/", "*", " ", "a"}

Space == " "

Str(n) == UNION {[1..k -> Alphabet] : k \in 0..n}

\* The command reads the start line and the end line of the selection only,
\* so a buffer is one line or two.
Buffers ==
    {<<l>> : l \in Str(MaxLen)}
        \cup {<<p[1], p[2]>> : p \in {q \in Str(MaxLen) \X Str(MaxLen) :
                                          Len(q[1]) + Len(q[2]) <= MaxLen}}

TokenPairs == {<<(<<"/", "*">>), (<<"*", "/">>)>>, <<(<<"/">>), (<<"*">>)>>}

----------------------------------------------------------------------------
(* JavaScript strings *)

NaN == "NaN"

Min2(a, b) == IF a < b THEN a ELSE b

Max2(a, b) == IF a > b THEN a ELSE b

\* s.charCodeAt(i): NaN outside the string
charCodeAt(s, i) == IF i < 0 \/ i >= Len(s) THEN NaN ELSE s[i + 1]

OccursAt(s, t, k) == k >= 0 /\ k + Len(t) <= Len(s) /\ SubSeq(s, k + 1, k + Len(t)) = t

RECURSIVE ScanDown(_, _, _)
ScanDown(s, t, k) ==
    IF k < 0 THEN -1
    ELSE IF OccursAt(s, t, k) THEN k
    ELSE ScanDown(s, t, k - 1)

RECURSIVE ScanUp(_, _, _)
ScanUp(s, t, k) ==
    IF k + Len(t) > Len(s) THEN -1
    ELSE IF OccursAt(s, t, k) THEN k
    ELSE ScanUp(s, t, k + 1)

\* s.lastIndexOf(t, position): the position is clamped into 0..s.length
lastIndexOf(s, t, position) ==
    ScanDown(s, t, Min2(Min2(Max2(position, 0), Len(s)), Len(s) - Len(t)))

\* s.indexOf(t, position): the position is clamped into 0..s.length
indexOf(s, t, position) == ScanUp(s, t, Min2(Max2(position, 0), Len(s)))

----------------------------------------------------------------------------
(* _haystackHasNeedleAtOffset *)

RECURSIVE MatchLoop(_, _, _, _)
MatchLoop(h, n, off, i) ==
    IF i >= Len(n) THEN TRUE
    ELSE IF charCodeAt(h, off + i) # charCodeAt(n, i) THEN FALSE
    ELSE MatchLoop(h, n, off, i + 1)

\* variant: the length check refuses a needle that ends where the haystack ends
_haystackHasNeedleAtOffset_TightBound(h, n, off) ==
    IF off < 0 THEN FALSE
    ELSE IF off + Len(n) >= Len(h) THEN FALSE
    ELSE MatchLoop(h, n, off, 0)

_haystackHasNeedleAtOffset(h, n, off) ==
    IF off < 0 THEN FALSE
    ELSE IF off + Len(n) > Len(h) THEN FALSE
    ELSE MatchLoop(h, n, off, 0)

----------------------------------------------------------------------------
(* Ranges, selections and edit operations *)

\* new Range(...): a range's start never lies after its end; the constructor
\* orders the two end points it is given.
Range(sl, sc, el, ec) ==
    IF sl > el \/ (sl = el /\ sc > ec)
    THEN [startLineNumber |-> el, startColumn |-> ec,
          endLineNumber |-> sl, endColumn |-> sc]
    ELSE [startLineNumber |-> sl, startColumn |-> sc,
          endLineNumber |-> el, endColumn |-> ec]

\* new Selection(...), read through its range fields, the only ones used here
Selection(sl, sc, pl, pcol) == Range(sl, sc, pl, pcol)

isEmpty(r) ==
    r.startLineNumber = r.endLineNumber /\ r.startColumn = r.endColumn

EditInsert(ln, col, text) == [range |-> Range(ln, col, ln, col), text |-> text]

EditDelete(r) == [range |-> r, text |-> <<>>]

EditReplace(r, text) == [range |-> r, text |-> text]

----------------------------------------------------------------------------
(* The edit plans *)

_createRemoveBlockCommentOperations(r, startToken, endToken) ==
    IF ~isEmpty(r)
    THEN << EditDelete(Range(r.startLineNumber, r.startColumn - Len(startToken),
                             r.startLineNumber, r.startColumn)),
            EditDelete(Range(r.endLineNumber, r.endColumn,
                             r.endLineNumber, r.endColumn + Len(endToken))) >>
    ELSE << EditDelete(Range(r.startLineNumber, r.startColumn - Len(startToken),
                             r.endLineNumber, r.endColumn + Len(endToken))) >>

_createAddBlockCommentOperations(r, startToken, endToken) ==
    IF ~isEmpty(r)
    THEN << EditInsert(r.startLineNumber, r.startColumn, startToken \o <<Space>>),
            EditInsert(r.endLineNumber, r.endColumn, <<Space>> \o endToken) >>
    ELSE << EditReplace(Range(r.startLineNumber, r.startColumn,
                              r.endLineNumber, r.endColumn),
                        startToken \o <<Space, Space>> \o endToken) >>

\* model.getLineContent(lineNumber)
getLineContent(model, ln) == model[ln]

\* variant: the search window is one token length too wide
StartTokenIndex_WideWindow(sel, cfg, model) ==
    lastIndexOf(getLineContent(model, sel.startLineNumber),
                cfg.blockCommentStartToken,
                sel.startColumn - 1 + 2 * Len(cfg.blockCommentStartToken))

StartTokenIndex(sel, cfg, model) ==
    lastIndexOf(getLineContent(model, sel.startLineNumber),
                cfg.blockCommentStartToken,
                sel.startColumn - 1 + Len(cfg.blockCommentStartToken))

EndTokenIndex(sel, cfg, model) ==
    indexOf(getLineContent(model, sel.endLineNumber),
            cfg.blockCommentEndToken,
            sel.endColumn - 1 - Len(cfg.blockCommentEndToken))

EndTokenBeforeCursorIndex(sel, cfg, model) ==
    lastIndexOf(getLineContent(model, sel.startLineNumber),
                cfg.blockCommentEndToken,
                sel.startColumn - 1 + Len(cfg.blockCommentEndToken))

\* the start token of the remove plan, widened by the space that follows it
WidenedStartToken(sel, cfg, model) ==
    LET startToken == cfg.blockCommentStartToken
        startTokenIndex == StartTokenIndex(sel, cfg, model)
    IN  IF charCodeAt(getLineContent(model, sel.startLineNumber),
                      startTokenIndex + Len(startToken)) = Space
        THEN startToken \o <<Space>>
        ELSE startToken

\* whether the end token of the remove plan takes the space before it
EndTokenWidens(sel, cfg, model) ==
    charCodeAt(getLineContent(model, sel.endLineNumber),
               EndTokenIndex(sel, cfg, model) - 1) = Space

WidenedEndToken(sel, cfg, model) ==
    IF EndTokenWidens(sel, cfg, model)
    THEN <<Space>> \o cfg.blockCommentEndToken
    ELSE cfg.blockCommentEndToken

ShiftedEndTokenIndex(sel, cfg, model) ==
    IF EndTokenWidens(sel, cfg, model)
    THEN EndTokenIndex(sel, cfg, model) - 1
    ELSE EndTokenIndex(sel, cfg, model)

\* variant: the closing end token is compared with the start of the start
\* token instead of its last character
TakesRemoveBranch_FromTokenStart(sel, cfg, model) ==
    /\ StartTokenIndex(sel, cfg, model) # -1
    /\ EndTokenIndex(sel, cfg, model) # -1
    /\ ~(EndTokenBeforeCursorIndex(sel, cfg, model)
            > StartTokenIndex(sel, cfg, model))

\* the condition under which the remove branch is taken
TakesRemoveBranch(sel, cfg, model) ==
    /\ StartTokenIndex(sel, cfg, model) # -1
    /\ EndTokenIndex(sel, cfg, model) # -1
    /\ ~(EndTokenBeforeCursorIndex(sel, cfg, model)
            > StartTokenIndex(sel, cfg, model) + Len(cfg.blockCommentStartToken) - 1)

\* variant: every add plan records the end token
_createOperationsForBlockComment_AlwaysUsed(sel, cfg, model, used) ==
    IF TakesRemoveBranch(sel, cfg, model)
    THEN LET startToken == WidenedStartToken(sel, cfg, model)
             endToken == WidenedEndToken(sel, cfg, model)
             endTokenIndex == ShiftedEndTokenIndex(sel, cfg, model)
         IN  [ops |-> _createRemoveBlockCommentOperations(
                         Range(sel.startLineNumber,
                               StartTokenIndex(sel, cfg, model) + 1 + Len(startToken),
                               sel.endLineNumber, endTokenIndex + 1),
                         startToken, endToken),
              usedEndToken |-> used]
    ELSE [ops |-> _createAddBlockCommentOperations(
                     sel, cfg.blockCommentStartToken, cfg.blockCommentEndToken),
          usedEndToken |-> <<cfg.blockCommentEndToken>>]

\* _createOperationsForBlockComment: the operations handed to the builder and
\* the value _usedEndToken has afterwards
_createOperationsForBlockComment(sel, cfg, model, used) ==
    IF TakesRemoveBranch(sel, cfg, model)
    THEN LET startToken == WidenedStartToken(sel, cfg, model)
             endToken == WidenedEndToken(sel, cfg, model)
             endTokenIndex == ShiftedEndTokenIndex(sel, cfg, model)
         IN  [ops |-> _createRemoveBlockCommentOperations(
                         Range(sel.startLineNumber,
                               StartTokenIndex(sel, cfg, model) + 1 + Len(startToken),
                               sel.endLineNumber, endTokenIndex + 1),
                         startToken, endToken),
              usedEndToken |-> used]
    ELSE LET added == _createAddBlockCommentOperations(
                         sel, cfg.blockCommentStartToken, cfg.blockCommentEndToken)
         IN  [ops |-> added,
              usedEndToken |-> IF Len(added) = 1
                               THEN <<cfg.blockCommentEndToken>> ELSE <<>>]

\* variant: the end token is not looked at
Unsupported_StartOnly(cfg) ==
    \/ ~cfg.present
    \/ ~cfg.hasStart \/ cfg.blockCommentStartToken = <<>>

\* !config || !config.blockCommentStartToken || !config.blockCommentEndToken
Unsupported(cfg) ==
    \/ ~cfg.present
    \/ ~cfg.hasStart \/ cfg.blockCommentStartToken = <<>>
    \/ ~cfg.hasEnd \/ cfg.blockCommentEndToken = <<>>

\* getEditOperations as a function of what it reads
EditPlan(sel, cfg, model, used) ==
    IF Unsupported(cfg)
    THEN [ops |-> <<>>, usedEndToken |-> used]
    ELSE _createOperationsForBlockComment(sel, cfg, model, used)

\* variant: the space before the end token is not counted
CursorState_NoSpace(inv, used) ==
    IF Len(inv) = 2
    THEN Selection(inv[1].endLineNumber, inv[1].endColumn,
                   inv[2].startLineNumber, inv[2].startColumn)
    ELSE LET srcRange == inv[1]
             deltaColumn == IF used # <<>> /\ used[1] # <<>>
                            THEN 0 - Len(used[1]) ELSE 0
         IN  Selection(srcRange.endLineNumber, srcRange.endColumn + deltaColumn,
                       srcRange.endLineNumber, srcRange.endColumn + deltaColumn)

\* variant: the selection starts where the first inverse range starts
CursorState_FromStart(inv, used) ==
    IF Len(inv) = 2
    THEN Selection(inv[1].startLineNumber, inv[1].startColumn,
                   inv[2].startLineNumber, inv[2].startColumn)
    ELSE LET srcRange == inv[1]
             deltaColumn == IF used # <<>> /\ used[1] # <<>>
                            THEN 0 - Len(used[1]) - 1 ELSE 0
         IN  Selection(srcRange.endLineNumber, srcRange.endColumn + deltaColumn,
                       srcRange.endLineNumber, srcRange.endColumn + deltaColumn)

\* computeCursorState as a function of the inverse ranges and _usedEndToken
CursorState(inv, used) ==
    IF Len(inv) = 2
    THEN Selection(inv[1].endLineNumber, inv[1].endColumn,
                   inv[2].startLineNumber, inv[2].startColumn)
    ELSE LET srcRange == inv[1]
             deltaColumn == IF used # <<>> /\ used[1] # <<>>
                            THEN 0 - Len(used[1]) - 1 ELSE 0
         IN  Selection(srcRange.endLineNumber, srcRange.endColumn + deltaColumn,
                       srcRange.endLineNumber, srcRange.endColumn + deltaColumn)

----------------------------------------------------------------------------
(* The edit harness: applies the tracked operations and reports where each  *)
(* one ended up.  Every operation the command builds lies on one line.      *)

ValidRange(model, r) ==
    /\ r.startLineNumber \in 1..Len(model)
    /\ r.endLineNumber = r.startLineNumber
    /\ 1 <= r.startColumn
    /\ r.startColumn <= r.endColumn
    /\ r.endColumn <= Len(model[r.startLineNumber]) + 1

Overlap(a, b) ==
    /\ a.startLineNumber = b.startLineNumber
    /\ a.startColumn < b.endColumn
    /\ b.startColumn < a.endColumn

ValidOps(model, o) ==
    /\ \A i \in 1..Len(o) : ValidRange(model, o[i].range)
    /\ \A i, j \in 1..Len(o) : i # j => ~Overlap(o[i].range, o[j].range)

\* operation j sits before operation i on the same line
Precedes(o, j, i) ==
    /\ j # i
    /\ o[j].range.startLineNumber = o[i].range.startLineNumber
    /\ o[j].range.endColumn <= o[i].range.startColumn
    /\ (o[i].range.endColumn <= o[j].range.startColumn => j < i)

Delta(op) == Len(op.text) - (op.range.endColumn - op.range.startColumn)

RECURSIVE SumDelta(_, _, _)
SumDelta(o, i, j) ==
    IF j = 0 THEN 0
    ELSE (IF Precedes(o, j, i) THEN Delta(o[j]) ELSE 0) + SumDelta(o, i, j - 1)

\* the range the text of operation i occupies once all operations are applied
InverseRange(o, i) ==
    LET ln == o[i].range.startLineNumber
        col == o[i].range.startColumn + SumDelta(o, i, Len(o))
    IN  Range(ln, col, ln, col + Len(o[i].text))

InverseRanges(o) == [i \in 1..Len(o) |-> InverseRange(o, i)]

ApplyOne(model, op) ==
    LET ln == op.range.startLineNumber
        l == model[ln]
    IN  [model EXCEPT ![ln] = SubSeq(l, 1, op.range.startColumn - 1) \o op.text
                                \o SubSeq(l, op.range.endColumn, Len(l))]

\* the operations with indexes in S, applied from the last position backwards
RECURSIVE ApplyFrom(_, _, _)
ApplyFrom(model, o, S) ==
    IF S = {} THEN model
    ELSE LET i == CHOOSE k \in S : \A j \in S \ {k} : ~Precedes(o, k, j)
         IN  ApplyFrom(ApplyOne(model, o[i]), o, S \ {i})

ApplyAll(model, o) == ApplyFrom(model, o, 1..Len(o))

----------------------------------------------------------------------------
(* Initial states *)

Cfg(p, hs, s, he, e) ==
    [present |-> p, hasStart |-> hs, blockCommentStartToken |-> s,
     hasEnd |-> he, blockCommentEndToken |-> e]

SupportedConfigs == {Cfg(TRUE, TRUE, p[1], TRUE, p[2]) : p \in TokenPairs}

\* no configuration, or one whose start or end token is absent or empty
UnsupportedConfigs ==
    LET p == CHOOSE q \in TokenPairs : Len(q[1]) = 1
    IN  { Cfg(FALSE, FALSE, <<>>, FALSE, <<>>),
          Cfg(TRUE, FALSE, <<>>, TRUE, p[2]),
          Cfg(TRUE, TRUE, <<>>, TRUE, p[2]),
          Cfg(TRUE, TRUE, p[1], FALSE, <<>>),
          Cfg(TRUE, TRUE, p[1], TRUE, <<>>) }

Configs == SupportedConfigs \cup UnsupportedConfigs

Positions(model) ==
    {q \in (1..Len(model)) \X (1..(MaxLen + 1)) : q[2] <= Len(model[q[1]]) + 1}

\* selections of the buffer, start not after end
Selections(model) ==
    {Selection(a[1], a[2], b[1], b[2]) : a, b \in Positions(model)}

Init ==
    /\ lines \in Buffers
    /\ config \in Configs
    /\ selection \in Selections(lines)
    /\ usedEndToken = <<>>
    /\ ops = <<>>
    /\ inverse = <<>>
    /\ result = <<>>
    /\ pc = "created"
    /\ before = lines
    /\ orig = [lines |-> lines, selection |-> selection]
    /\ run = 1
    /\ calls = 0
    /\ haystack = <<>>
    /\ needle = <<>>
    /\ offset = 0
    /\ matched = "idle"

----------------------------------------------------------------------------
(* Actions *)

\* one call of getEditOperations on the current instance
Plan ==
    LET plan == EditPlan(selection, config, lines, usedEndToken)
    IN  /\ ops' = plan.ops
        /\ usedEndToken' = plan.usedEndToken
        /\ before' = lines
        /\ inverse' = <<>>
        /\ result' = <<>>
        /\ calls' = calls + 1
        /\ pc' = "planned"
        /\ UNCHANGED <<lines, config, selection, orig, run>>
        /\ UNCHANGED matchVars

GetEditOperations ==
    /\ pc = "created"
    /\ Plan

\* the harness applies the tracked operations, or rejects a malformed batch
ApplyEdits ==
    /\ pc = "planned"
    /\ ops # <<>>
    /\ IF ValidOps(lines, ops)
       THEN /\ lines' = ApplyAll(lines, ops)
            /\ inverse' = InverseRanges(ops)
            /\ pc' = "applied"
       ELSE /\ pc' = "rejected"
            /\ UNCHANGED <<lines, inverse>>
    /\ UNCHANGED <<config, selection, usedEndToken, ops, result, before, orig,
                   run, calls>>
    /\ UNCHANGED matchVars

ComputeCursorState ==
    /\ pc = "applied"
    /\ result' = <<CursorState(inverse, usedEndToken)>>
    /\ pc' = "cursor"
    /\ UNCHANGED <<lines, config, selection, usedEndToken, ops, inverse, before,
                   orig, run, calls>>
    /\ UNCHANGED matchVars

\* a fresh command is constructed on the selection the last one returned
NewCommand ==
    /\ pc = "cursor"
    /\ run < MaxRuns
    /\ selection' = result[1]
    /\ usedEndToken' = <<>>
    /\ ops' = <<>>
    /\ inverse' = <<>>
    /\ result' = <<>>
    /\ pc' = "created"
    /\ run' = run + 1
    /\ calls' = 0
    /\ UNCHANGED <<lines, config, before, orig>>
    /\ UNCHANGED matchVars

\* the same instance is asked for its edit operations once more
GetEditOperationsAgain ==
    /\ pc = "cursor"
    /\ calls < MaxCalls
    /\ Plan

Next ==
    \/ GetEditOperations
    \/ ApplyEdits
    \/ ComputeCursorState
    \/ NewCommand

Spec == Init /\ [][Next]_vars

\* one instance, used more than once
NextReuse ==
    \/ GetEditOperations
    \/ ApplyEdits
    \/ ComputeCursorState
    \/ GetEditOperationsAgain

SpecReuse == Init /\ [][NextReuse]_vars

----------------------------------------------------------------------------
(* The matcher on its own *)

InitMatcher ==
    /\ haystack \in Str(MaxLen)
    /\ needle \in Str(MaxNeedle)
    /\ offset \in (0 - 2)..(MaxLen + 1)
    /\ matched = "pending"
    /\ lines = <<(<<>>)>>
    /\ config = Cfg(FALSE, FALSE, <<>>, FALSE, <<>>)
    /\ selection = Selection(1, 1, 1, 1)
    /\ usedEndToken = <<>>
    /\ ops = <<>>
    /\ inverse = <<>>
    /\ result = <<>>
    /\ pc = "idle"
    /\ before = lines
    /\ orig = [lines |-> lines, selection |-> selection]
    /\ run = 1
    /\ calls = 0

Match ==
    /\ matched = "pending"
    /\ matched' = IF _haystackHasNeedleAtOffset(haystack, needle, offset)
                  THEN "true" ELSE "false"
    /\ UNCHANGED <<haystack, needle, offset>>
    /\ UNCHANGED cmdVars

NextMatcher == Match

SpecMatcher == InitMatcher /\ [][NextMatcher]_vars

----------------------------------------------------------------------------
(* Vocabulary of the properties, defined without the operators above *)

\* the 0-based indexes at which t occurs in s
Occ(s, t) ==
    {k \in 0..(Len(s) - Len(t)) : \A i \in 1..Len(t) : s[k + i] = t[i]}

SetMax(S) == CHOOSE x \in S : \A y \in S : y <= x

SetMin(S) == CHOOSE x \in S : \A y \in S : x <= y

HasTokens(cfg) ==
    /\ cfg.present /\ cfg.hasStart /\ cfg.hasEnd
    /\ Len(cfg.blockCommentStartToken) > 0
    /\ Len(cfg.blockCommentEndToken) > 0

\* occurrences of the start token on the start line inside the search window
StartCandidates(sel, cfg, model) ==
    {k \in Occ(model[sel.startLineNumber], cfg.blockCommentStartToken) :
        k <= sel.startColumn - 1 + Len(cfg.blockCommentStartToken)}

\* occurrences of the end token on the end line inside the search window
EndCandidates(sel, cfg, model) ==
    {k \in Occ(model[sel.endLineNumber], cfg.blockCommentEndToken) :
        k >= sel.endColumn - 1 - Len(cfg.blockCommentEndToken)}

\* occurrences of the end token on the start line, same window as the start token
ClosingCandidates(sel, cfg, model) ==
    {k \in Occ(model[sel.startLineNumber], cfg.blockCommentEndToken) :
        k <= sel.startColumn - 1 + Len(cfg.blockCommentEndToken)}

\* the selection is classified commented
Commented(sel, cfg, model) ==
    /\ StartCandidates(sel, cfg, model) # {}
    /\ EndCandidates(sel, cfg, model) # {}
    /\ \/ ClosingCandidates(sel, cfg, model) = {}
       \/ SetMax(ClosingCandidates(sel, cfg, model))
            < SetMax(StartCandidates(sel, cfg, model))
                + Len(cfg.blockCommentStartToken)

IsRemovePlan(o) == o # <<>> /\ \A i \in 1..Len(o) : o[i].text = <<>>

IsAddPlan(o) == o # <<>> /\ \A i \in 1..Len(o) : o[i].text # <<>>

Collapsed(sel) ==
    sel.startLineNumber = sel.endLineNumber /\ sel.startColumn = sel.endColumn

Planned == pc \in {"planned", "applied", "rejected", "cursor"}

----------------------------------------------------------------------------
(* Properties *)

\* C5: the matcher answers false when the offset is negative or the needle
\* would run past the end of the haystack, and otherwise answers true exactly
\* when every character of the needle equals the haystack character at the
\* same distance from the offset.
C5_Matcher ==
    matched \in {"true", "false"} =>
        ((matched = "true") <=>
            /\ offset >= 0
            /\ offset + Len(needle) <= Len(haystack)
            /\ \A i \in 0..(Len(needle) - 1) : haystack[offset + i + 1] = needle[i + 1])

C5_Witness ==
    /\ matched = "true"
    /\ Len(needle) = MaxNeedle
    /\ offset > 0
    /\ offset + Len(needle) = Len(haystack)

\* C2: with no comment configuration, or a start or end token that is absent
\* or empty, getEditOperations hands no operation to the builder.
C2_UnsupportedIsNoOp ==
    (Planned /\ ~HasTokens(config)) => ops = <<>>

C2_Witness ==
    /\ pc = "planned"
    /\ config.present /\ config.hasStart /\ config.blockCommentStartToken # <<>>
    /\ ~config.hasEnd
    /\ selection.startColumn < selection.endColumn
    /\ ops = <<>>

C8_Original ==
    (pc = "planned" /\ HasTokens(config)
        /\ StartTokenIndex(selection, config, lines) # -1)
    => StartTokenIndex(selection, config, lines) <= selection.startColumn - 1

\* C8 amended: a located start token is an occurrence of the start token that
\* begins at most len(startToken) characters after the selection start, and no
\* occurrence between it and that limit exists; a start token beginning later
\* than that is never the one located.
C8_StartTokenWindow ==
    (pc = "planned" /\ HasTokens(config)
        /\ StartTokenIndex(selection, config, lines) # -1)
    => LET k == StartTokenIndex(selection, config, lines)
           limit == selection.startColumn - 1 + Len(config.blockCommentStartToken)
       IN  /\ k \in Occ(lines[selection.startLineNumber], config.blockCommentStartToken)
           /\ k <= limit
           /\ \A j \in Occ(lines[selection.startLineNumber],
                           config.blockCommentStartToken) : j <= limit => j <= k

\* a located start token that begins after the selection start
C8_Witness ==
    /\ pc = "planned"
    /\ HasTokens(config)
    /\ StartTokenIndex(selection, config, lines) > selection.startColumn - 1

NewLine == "\n"

\* the text of lines a+1..b of the model, each followed by a line break
RECURSIVE WholeLines(_, _, _)
WholeLines(model, a, b) ==
    IF a >= b THEN <<>>
    ELSE model[a + 1] \o <<NewLine>> \o WholeLines(model, a + 1, b)

\* the text a range covers
RangeText(model, r) ==
    IF r.startLineNumber = r.endLineNumber
    THEN SubSeq(model[r.startLineNumber], r.startColumn, r.endColumn - 1)
    ELSE SubSeq(model[r.startLineNumber], r.startColumn,
                Len(model[r.startLineNumber]))
            \o <<NewLine>>
            \o WholeLines(model, r.startLineNumber, r.endLineNumber - 1)
            \o SubSeq(model[r.endLineNumber], 1, r.endColumn - 1)

\* line l without the characters at the 1-based indexes in D
RECURSIVE Keep(_, _, _)
Keep(l, D, i) ==
    IF i > Len(l) THEN <<>>
    ELSE (IF i \in D THEN <<>> ELSE <<l[i]>>) \o Keep(l, D, i + 1)

\* C3: a collapsed selection at column c that is not classified commented gets
\* exactly one operation, replacing the empty range at c by the start token,
\* two spaces and the end token; the harness applies it and computeCursorState
\* returns the collapsed selection at column c + len(startToken) + 1.
C3_CollapsedAdd ==
    (Planned /\ HasTokens(config) /\ Collapsed(selection)
        /\ ~Commented(selection, config, before))
    => LET ln == selection.startLineNumber
           c == selection.startColumn
           inserted == config.blockCommentStartToken \o <<Space, Space>>
                          \o config.blockCommentEndToken
       IN  /\ ops = << [range |-> [startLineNumber |-> ln, startColumn |-> c,
                                   endLineNumber |-> ln, endColumn |-> c],
                        text |-> inserted] >>
           /\ pc # "rejected"
           /\ pc \in {"applied", "cursor"} =>
                lines[ln] = SubSeq(before[ln], 1, c - 1) \o inserted
                               \o SubSeq(before[ln], c, Len(before[ln]))
           /\ pc = "cursor" =>
                result[1] = [startLineNumber |-> ln,
                             startColumn |-> c + Len(config.blockCommentStartToken) + 1,
                             endLineNumber |-> ln,
                             endColumn |-> c + Len(config.blockCommentStartToken) + 1]

C3_Witness ==
    /\ pc = "cursor"
    /\ HasTokens(config)
    /\ Collapsed(selection)
    /\ selection.startColumn > 1
    /\ ~Commented(selection, config, before)
    /\ Len(config.blockCommentStartToken) = 2

\* C6: after a plan of two operations computeCursorState returns the selection
\* from the end of the first inverse range to the start of the second, and the
\* text it covers is the text the original selection covered (add) or the text
\* that lay between the two deleted ranges (remove).
C6_TwoOperationCursor ==
    (pc = "cursor" /\ Len(ops) = 2)
    => /\ result[1] = [startLineNumber |-> inverse[1].endLineNumber,
                       startColumn |-> inverse[1].endColumn,
                       endLineNumber |-> inverse[2].startLineNumber,
                       endColumn |-> inverse[2].startColumn]
       /\ RangeText(lines, result[1]) =
            IF IsAddPlan(ops)
            THEN RangeText(before, selection)
            ELSE RangeText(before,
                    [startLineNumber |-> ops[1].range.endLineNumber,
                     startColumn |-> ops[1].range.endColumn,
                     endLineNumber |-> ops[2].range.startLineNumber,
                     endColumn |-> ops[2].range.startColumn])

\* a two-operation remove with content between the tokens
C6_Witness ==
    /\ pc = "cursor"
    /\ Len(ops) = 2
    /\ IsRemovePlan(ops)
    /\ RangeText(lines, result[1]) # <<>>
    /\ result[1].startLineNumber = result[1].endLineNumber

\* C9 as stated: on the remove path the content range has its start at or
\* before its end, every column of the delete ranges is at least 1 and the
\* delete ranges share no character.
C9_WellFormedRemovePlan ==
    (pc = "planned" /\ HasTokens(config)
        /\ TakesRemoveBranch(selection, config, lines))
    => /\ selection.startLineNumber = selection.endLineNumber =>
            StartTokenIndex(selection, config, lines)
                + Len(WidenedStartToken(selection, config, lines))
              <= ShiftedEndTokenIndex(selection, config, lines)
       /\ \A i \in 1..Len(ops) : ops[i].range.startColumn >= 1
       /\ \A i, j \in 1..Len(ops) : i # j => ~Overlap(ops[i].range, ops[j].range)

\* C4 as stated: when the selection is classified commented, a space follows
\* the located start token and a space precedes the located end token, applying
\* the plan removes the start token with the space after it, the end token
\* with the space before it, and nothing else.
C4_WhitespaceAwareRemoval ==
    (pc \in {"applied", "rejected"} /\ HasTokens(config)
        /\ Commented(selection, config, before))
    => LET s == SetMax(StartCandidates(selection, config, before))
           e == SetMin(EndCandidates(selection, config, before))
           n == Len(config.blockCommentStartToken)
           m == Len(config.blockCommentEndToken)
           sl == selection.startLineNumber
           el == selection.endLineNumber
           D(ln) == (IF ln = sl THEN (s + 1)..(s + n + 1) ELSE {})
                       \cup (IF ln = el THEN e..(e + m) ELSE {})
       IN  (/\ Len(before[sl]) > s + n
            /\ before[sl][s + n + 1] = Space
            /\ e >= 1
            /\ before[el][e] = Space)
           => lines = [ln \in 1..Len(before) |-> Keep(before[ln], D(ln), 1)]

\* C1 as stated: when the first command adds a comment around a non-collapsed
\* selection, a fresh command run on the resulting text and selection gives
\* back the original text.
C1_RoundTrip ==
    (run = 2 /\ pc \in {"applied", "rejected"} /\ HasTokens(config)
        /\ ~Collapsed(orig.selection)
        /\ ~Commented(orig.selection, config, orig.lines))
    => lines = orig.lines

OneOperationAdd(o) == Len(o) = 1 /\ o[1].text # <<>>

\* what C10 says of a state in which the last call has been made
UsedEndTokenCoherent ==
    /\ usedEndToken # <<>> <=> OneOperationAdd(ops)
    /\ usedEndToken # <<>> => usedEndToken[1] = config.blockCommentEndToken
    /\ (pc = "cursor" /\ Len(ops) = 1) =>
          result[1].endColumn =
              inverse[1].endColumn
                - (IF OneOperationAdd(ops)
                   THEN Len(config.blockCommentEndToken) + 1 ELSE 0)

\* C10 as stated: after any sequence of getEditOperations calls on one
\* instance the used end token is set exactly when the most recent call made a
\* one-operation add plan.
C10_Original == Planned => UsedEndTokenCoherent

\* C10 amended: after the first getEditOperations call on a freshly constructed
\* instance the used end token is the end token exactly when that call made a
\* one-operation add plan and is none otherwise, so the one-range cursor shift
\* is len(endToken) + 1 after a collapsed add and 0 after a collapsed-content
\* remove.
C10_SingleUse == (Planned /\ calls = 1) => UsedEndTokenCoherent

C10_Witness ==
    /\ pc = "cursor"
    /\ calls = 1
    /\ Len(ops) = 1
    /\ IsRemovePlan(ops)
    /\ usedEndToken = <<>>
    /\ result[1].endColumn = inverse[1].endColumn

====
